---- MODULE Spec2Model ----
(***************************************************************************)
(* Forage (grove-domain-search): the pricing client of pricing.py (the    *)
(* DomainPrice dataclass, the per-TLD price cache of CloudflarePricing,   *)
(* batch_pricing, categorize_domains_by_pricing) and the two checks of    *)
(* cli.py (check_single_domain, check_multiple_domains).                  *)
(*                                                                         *)
(* Strings are sequences of one-character strings, so that lower() and    *)
(* split(".")[-1] are computed and not assumed.  An Optional value is a   *)
(* sequence of length 0 (None) or 1.                                       *)
(***************************************************************************)
EXTENDS Integers, Sequences, FiniteSets, TLC

VARIABLES
    config,     \* config.pricing: the three thresholds, in cents
    cache,      \* pricing_client._price_cache: tld -> DomainPrice
    frame,      \* the coroutine the event loop is running for the caller
    fetched,    \* history (SpecHistory): the TLDs for which an earlier, completed
                \* call's GET was answered with a catalog
    tasks,      \* concurrent get_tld_pricing coroutines on the same client
    pair        \* (SpecPair) one domain checked through both branches of
                \* run_checks from the same cache: the two runs' ends

vars == <<config, cache, frame, fetched, tasks, pair>>

\* ---------------------------------------------------------------- bounds

MaxDomains == 2

MaxCatalog == 2

NTasks == 2

\* --------------------------------------------------------------- strings

None == <<>>

Some(x) == <<x>>

LowerChar(c) ==
    CASE c = "A" -> "a"
      [] c = "B" -> "b"
      [] c = "C" -> "c"
      [] c = "I" -> "i"
      [] c = "O" -> "o"
      [] OTHER -> c

Lower(s) == [i \in 1..Len(s) |-> LowerChar(s[i])]

SetMax(S) == CHOOSE m \in S : \A x \in S : x <= m

\* s.split(".")[-1]
LastLabel(s) ==
    LET dots == {i \in 1..Len(s) : s[i] = "."}
        from == IF dots = {} THEN 1 ELSE SetMax(dots) + 1
    IN  SubSeq(s, from, Len(s))

\* domain.lower().split(".")[-1]
TldOf(domain) == LastLabel(Lower(domain))

Range(s) == {s[i] : i \in 1..Len(s)}

SeqsUpTo(S, n) == UNION {[1..k -> S] : k \in 0..n}

\* ---------------------------------------------------------------- inputs

co == <<"c", "o">>

io == <<"i", "o">>

zz == <<"z", "z">>

\* a.co, B.CO, a.io, and io (a name with no dot)
DomainPool ==
    { <<"a", ".", "c", "o">>,
      <<"B", ".", "C", "O">>,
      <<"a", ".", "i", "o">>,
      io }

TldPool == {co, io, zz, <<"C", "O">>}

Statuses == {"AVAILABLE", "REGISTERED", "UNKNOWN"}

Num(n) == [t |-> "num", v |-> n]

Absent == [t |-> "absent", v |-> 0]

Null == [t |-> "null", v |-> 0]

\* The entries a catalog response may hold: JSON objects with a tld, a price in
\* dollars and an optional renewal price, an object whose price is null, and a
\* value that is no object.
EntryPool ==
    { [shape |-> "object", tld |-> co, price |-> Num(4),  renewal |-> Absent],
      [shape |-> "object", tld |-> co, price |-> Num(35), renewal |-> Num(40)],
      [shape |-> "object", tld |-> io, price |-> Num(20), renewal |-> Absent],
      [shape |-> "object", tld |-> io, price |-> Null,    renewal |-> Absent],
      [shape |-> "other",  tld |-> None, price |-> Absent, renewal |-> Absent] }

Catalogs == SeqsUpTo(EntryPool, MaxCatalog)

\* What the GET of PRICING_API_URL may come back with.
Responses ==
    { [kind |-> "http_error", success |-> FALSE, result |-> <<>>],
      [kind |-> "bad_json",   success |-> FALSE, result |-> <<>>] }
    \cup {[kind |-> "json", success |-> FALSE, result |-> <<>>]}
    \cup {[kind |-> "json", success |-> TRUE, result |-> c] : c \in Catalogs}

\* ----------------------------------------------------------- DomainPrice

DefaultConfig == [bundled_max_cents |-> 500,
                  recommended_max_cents |-> 1500,
                  premium_flag_above_cents |-> 3000]

\* DomainPrice(...) followed by __post_init__
DomainPrice(domain, tld, price_cents, currency, annual_renewal_cents) ==
    [domain |-> domain,
     tld |-> tld,
     price_cents |-> price_cents,
     currency |-> currency,
     is_premium |-> price_cents >= config.premium_flag_above_cents,
     is_bundled |-> price_cents <= config.bundled_max_cents,
     is_recommended |-> price_cents <= config.recommended_max_cents,
     annual_renewal_cents |-> annual_renewal_cents]

\* category with the premium test moved before the recommended test
categoryPremiumFirst(p) ==
    IF p.is_bundled THEN "bundled"
    ELSE IF p.is_premium THEN "premium"
    ELSE IF p.is_recommended THEN "recommended"
    ELSE "standard"

\* category without the premium branch
categoryNoPremium(p) ==
    IF p.is_bundled THEN "bundled"
    ELSE IF p.is_recommended THEN "recommended"
    ELSE "standard"

\* DomainPrice.category
category(p) ==
    IF p.is_bundled THEN "bundled"
    ELSE IF p.is_recommended THEN "recommended"
    ELSE IF p.is_premium THEN "premium"
    ELSE "standard"

\* The loop of categorize_domains_by_pricing inserting at the front of each list
RECURSIVE AppendEachFront(_, _)
AppendEachFront(categories, domain_prices) ==
    IF domain_prices = <<>> THEN categories
    ELSE LET item == Head(domain_prices) IN
         AppendEachFront([categories EXCEPT ![category(item.price_info)] =
                                                <<item.domain>> \o @],
                         Tail(domain_prices))

\* categorize_domains_by_pricing: domain_prices is the dict in iteration order, a
\* sequence of [domain, price_info] with distinct domains.
RECURSIVE AppendEach(_, _)
AppendEach(categories, domain_prices) ==
    IF domain_prices = <<>> THEN categories
    ELSE LET item == Head(domain_prices) IN
         AppendEach([categories EXCEPT ![category(item.price_info)] =
                                           Append(@, item.domain)],
                    Tail(domain_prices))

categorize_domains_by_pricing(domain_prices) ==
    AppendEach([c \in {"bundled", "recommended", "standard", "premium"} |-> <<>>],
               domain_prices)

\* ------------------------------------------------- the pricing client

\* The assignment replacing the dict by one that holds the new entry only
PutAlone(c, k, v) == [x \in {k} |-> v]

\* self._price_cache[tld] = domain_price, pricing_results[tld] = pricing
Put(c, k, v) == [x \in DOMAIN c \cup {k} |-> IF x = k THEN v ELSE c[x]]

ExceptionClasses == {"HTTPError", "ValueError", "TypeError", "AttributeError",
                     "PricingError"}

\* The loop storing every entry it passes on the way to the TLD, not only the
\* entry of the TLD asked for
RECURSIVE ScanCatalogCacheAll(_, _, _)
ScanCatalogCacheAll(c, result, tld) ==
    IF result = <<>>
    THEN [raised |-> None, value |-> None, cache |-> c]
    ELSE LET pricing_info == Head(result) IN
         IF pricing_info.shape # "object"
         THEN [raised |-> Some("AttributeError"), value |-> None, cache |-> c]
         ELSE IF pricing_info.price.t = "null" \/ pricing_info.renewal.t = "null"
         THEN IF pricing_info.tld = tld
              THEN [raised |-> Some("TypeError"), value |-> None, cache |-> c]
              ELSE ScanCatalogCacheAll(c, Tail(result), tld)
         ELSE LET price_cents ==
                      (IF pricing_info.price.t = "absent" THEN 0
                       ELSE pricing_info.price.v) * 100
                  renewal_cents ==
                      (IF pricing_info.renewal.t = "absent" THEN price_cents
                       ELSE pricing_info.renewal.v) * 100
                  domain_price ==
                      DomainPrice(<<".">> \o pricing_info.tld, pricing_info.tld,
                                  price_cents, "USD", Some(renewal_cents))
              IN  IF pricing_info.tld = tld
                  THEN [raised |-> None, value |-> Some(domain_price),
                        cache |-> Put(c, tld, domain_price)]
                  ELSE ScanCatalogCacheAll(Put(c, pricing_info.tld, domain_price),
                                           Tail(result), tld)

\* The loop of get_tld_pricing over data["result"], with the cache c it writes.
RECURSIVE ScanCatalog(_, _, _)
ScanCatalog(c, result, tld) ==
    IF result = <<>>
    THEN [raised |-> None, value |-> None, cache |-> c]
    ELSE LET pricing_info == Head(result) IN
         IF pricing_info.shape # "object"
         THEN [raised |-> Some("AttributeError"), value |-> None, cache |-> c]
         ELSE IF pricing_info.tld = tld
         THEN IF pricing_info.price.t = "null" \/ pricing_info.renewal.t = "null"
              THEN [raised |-> Some("TypeError"), value |-> None, cache |-> c]
              ELSE LET price_cents ==
                           (IF pricing_info.price.t = "absent" THEN 0
                            ELSE pricing_info.price.v) * 100
                       renewal_cents ==
                           (IF pricing_info.renewal.t = "absent" THEN price_cents
                            ELSE pricing_info.renewal.v) * 100
                       domain_price ==
                           DomainPrice(<<".">> \o tld, tld, price_cents, "USD",
                                       Some(renewal_cents))
                   IN  [raised |-> None, value |-> Some(domain_price),
                        cache |-> Put(c, tld, domain_price)]
         ELSE ScanCatalog(c, Tail(result), tld)

\* The body of the try block, once the GET has come back with resp.
TryBody(c, tld, resp) ==
    IF resp.kind = "http_error"
    THEN [raised |-> Some("HTTPError"), value |-> None, cache |-> c]
    ELSE IF resp.kind = "bad_json"
    THEN [raised |-> Some("ValueError"), value |-> None, cache |-> c]
    ELSE IF ~resp.success
    THEN [raised |-> Some("PricingError"), value |-> None, cache |-> c]
    ELSE ScanCatalog(c, resp.result, tld)

\* The except clauses without the final except Exception
ExceptClausesHttpOnly(exc) == IF exc = "HTTPError" THEN "PricingError" ELSE exc

\* except httpx.HTTPError / except Exception: what leaves get_tld_pricing.
ExceptClauses(exc) ==
    IF exc = "HTTPError" THEN "PricingError"
    ELSE IF exc \in ExceptionClasses THEN "PricingError"
    ELSE exc

\* get_tld_pricing after a cache miss, from the response of the GET on.
AfterFetch(c, tld, resp) ==
    LET body == TryBody(c, tld, resp) IN
    IF body.raised # None
    THEN [body EXCEPT !.raised = Some(ExceptClauses(body.raised[1]))]
    ELSE body

\* The membership test made on the cached price's domain, ".tld", not on the key
CacheHitDotted(c, tld) == (<<".">> \o tld) \in DOMAIN c

\* if tld in self._price_cache
CacheHit(c, tld) == tld \in DOMAIN c

\* DomainPrice(domain=domain, tld=pricing.tld, ...): a TLD's price for one domain
Project(domain, pricing) ==
    DomainPrice(domain, pricing.tld, pricing.price_cents, pricing.currency,
                pricing.annual_renewal_cents)

\* The TLD set taken without lower()
UniqueTldsCased(domains) == {LastLabel(d) : d \in Range(domains)}

\* tlds = {domain.lower().split(".")[-1] for domain in domains}
UniqueTlds(domains) == {TldOf(d) : d \in Range(domains)}

\* The mapping keyed by the lower-cased domain
MapBackLowered(domains, pricing_results) ==
    [d \in {Lower(x) : x \in {y \in Range(domains) :
                                 TldOf(y) \in DOMAIN pricing_results}}
        |-> Project(d, pricing_results[TldOf(d)])]

\* The second loop of batch_pricing: domain -> DomainPrice, for the domains whose
\* TLD is in pricing_results.
MapBack(domains, pricing_results) ==
    [d \in {x \in Range(domains) : TldOf(x) \in DOMAIN pricing_results}
        |-> Project(d, pricing_results[TldOf(d)])]

\* ------------------------------------------------------------ the checks

\* checker.DomainResult, with the _pricing_info attribute cli.py adds to it
DomainResult(domain, status) ==
    [domain |-> domain,
     status |-> status,
     error |-> IF status = "UNKNOWN" THEN Some("lookup failed") ELSE None,
     pricing |-> None]

\* checker.check_domain: one lookup, whose outcome is the status
check_domain(domain, outcome) == DomainResult(domain, outcome)

\* checker.check_domains: one result per domain, in input order
check_domains(domains, outcomes) ==
    [i \in 1..Len(domains) |-> check_domain(domains[i], outcomes[i])]

\* The list taken without the status test
RECURSIVE AvailableDomainsAll(_)
AvailableDomainsAll(results) ==
    IF results = <<>> THEN <<>>
    ELSE <<Head(results).domain>> \o AvailableDomainsAll(Tail(results))

\* The list keeping every domain that is not REGISTERED
RECURSIVE AvailableDomainsNotRegistered(_)
AvailableDomainsNotRegistered(results) ==
    IF results = <<>> THEN <<>>
    ELSE (IF Head(results).status # "REGISTERED" THEN <<Head(results).domain>>
          ELSE <<>>) \o AvailableDomainsNotRegistered(Tail(results))

\* available_domains = [r.domain for r in results if r.status == "AVAILABLE"]
RECURSIVE AvailableDomains(_)
AvailableDomains(results) ==
    IF results = <<>> THEN <<>>
    ELSE (IF Head(results).status = "AVAILABLE" THEN <<Head(results).domain>>
          ELSE <<>>) \o AvailableDomains(Tail(results))

\* Pricing fetched whether or not it was asked for
BatchPricingDueAlways(include_pricing, available_domains) ==
    available_domains # <<>>

\* if include_pricing: ... if available_domains:
BatchPricingDue(include_pricing, available_domains) ==
    include_pricing /\ available_domains # <<>>

\* The test without the status
SinglePricingDueAnyStatus(include_pricing, result) == include_pricing

\* if include_pricing and result.status == "AVAILABLE"
SinglePricingDue(include_pricing, result) ==
    include_pricing /\ result.status = "AVAILABLE"

\* The merge keeping only the results that have pricing
AttachDropping(results, pricing_info) ==
    LET RECURSIVE Keep(_)
        Keep(rs) ==
            IF rs = <<>> THEN <<>>
            ELSE (IF Head(rs).domain \in DOMAIN pricing_info
                  THEN <<[Head(rs) EXCEPT !.pricing =
                                             Some(pricing_info[Head(rs).domain])]>>
                  ELSE <<>>) \o Keep(Tail(rs))
    IN  Keep(results)

\* for result in results: if result.domain in pricing_info: attach
Attach(results, pricing_info) ==
    [i \in 1..Len(results) |->
        IF results[i].domain \in DOMAIN pricing_info
        THEN [results[i] EXCEPT !.pricing = Some(pricing_info[results[i].domain])]
        ELSE results[i]]

\* ------------------------------------------------------------- the frame

Lookup(d) == [call |-> "lookup", what |-> d]

Fetch(tld) == [call |-> "fetch", what |-> tld]

IdleFrame ==
    [op |-> "idle", pc |-> "idle",
     arg |-> <<>>,              \* the tld or domain argument
     domains |-> <<>>,          \* the domains argument
     include_pricing |-> FALSE,
     results |-> <<>>,          \* results of check_domain(s)
     avail |-> <<>>,            \* the domains batch_pricing was given
     tlds |-> {},               \* the TLDs the first loop has yet to visit
     tld |-> <<>>,              \* the tld of the get_tld_pricing in progress
     pricing_results |-> <<>>,
     domain_pricing |-> <<>>,   \* what batch_pricing returned
     value |-> None,            \* what get_*_pricing returned
     raised |-> None,           \* the exception that left the call
     domain_prices |-> <<>>,    \* the argument of categorize_domains_by_pricing
     categories |-> <<>>,       \* what categorize_domains_by_pricing returned
     cache0 |-> <<>>,           \* history: the cache when the call began
     outcomes |-> <<>>,         \* history: the status each lookup came back with
     resp |-> None,             \* history: the response to a direct get_tld_pricing
     outcome |-> <<>>,          \* history: tld -> hit, found, absent, error
     log |-> <<>>]              \* history: the external calls issued, in order

Done(f) == [f EXCEPT !.pc = "done"]

\* batch_pricing letting a PricingError leave the loop instead of skipping the TLD
BatchResumeAbort(f, r) ==
    IF r.raised = None
    THEN [f EXCEPT !.pc = "loop",
                   !.pricing_results =
                       IF r.value # None THEN Put(@, f.tld, r.value[1]) ELSE @]
    ELSE IF f.op = "check_multiple_domains" /\ r.raised[1] \in ExceptionClasses
    THEN [f EXCEPT !.pc = "done"]
    ELSE [f EXCEPT !.pc = "done", !.raised = r.raised]

\* batch_pricing once get_tld_pricing(f.tld) has returned or raised r
BatchResume(f, r) ==
    IF r.raised = None
    THEN [f EXCEPT !.pc = "loop",
                   !.pricing_results =
                       IF r.value # None THEN Put(@, f.tld, r.value[1]) ELSE @]
    ELSE IF r.raised[1] = "PricingError"
    THEN [f EXCEPT !.pc = "loop"]
    ELSE IF f.op = "check_multiple_domains" /\ r.raised[1] \in ExceptionClasses
    THEN Done(f)
    ELSE Done([f EXCEPT !.raised = r.raised])

\* The caller of get_tld_pricing(f.tld), once it has returned or raised r.
Resume(f, r) ==
    CASE f.op = "get_tld_pricing" ->
            Done([f EXCEPT !.raised = r.raised, !.value = r.value])
      [] f.op = "get_domain_pricing" ->
            Done([f EXCEPT !.raised = r.raised,
                           !.value = IF r.value # None
                                     THEN Some(Project(f.arg, r.value[1]))
                                     ELSE None])
      [] f.op = "check_single_domain" ->
            IF r.raised # None
            THEN IF r.raised[1] \in ExceptionClasses THEN Done(f)
                 ELSE Done([f EXCEPT !.raised = r.raised])
            ELSE IF r.value # None
            THEN Done([f EXCEPT !.results[1].pricing =
                                    Some(Project(f.arg, r.value[1]))])
            ELSE Done(f)
      [] OTHER -> BatchResume(f, r)

OutcomeOf(r) ==
    IF r.raised # None THEN "error"
    ELSE IF r.value # None THEN "found" ELSE "absent"

\* get_tld_pricing(tld) called from frame f on the cache c: a cache hit returns at
\* once, a miss issues the GET and suspends.
Enter(c, f, tld) ==
    IF CacheHit(c, tld)
    THEN Resume([f EXCEPT !.tld = tld, !.outcome = Put(@, tld, "hit")],
                [raised |-> None, value |-> Some(c[tld])])
    ELSE [f EXCEPT !.pc = "fetch", !.tld = tld, !.log = Append(@, Fetch(tld))]

\* ---------------------------------------------------------------- actions

CallGetTldPricing(tld) ==
    /\ frame.pc = "idle"
    /\ frame' = Enter(cache,
                       [IdleFrame EXCEPT !.op = "get_tld_pricing", !.arg = tld,
                                         !.cache0 = cache], tld)
    /\ UNCHANGED <<config, cache, fetched, tasks, pair>>

CallGetDomainPricing(domain) ==
    /\ frame.pc = "idle"
    /\ frame' = Enter(cache,
                       [IdleFrame EXCEPT !.op = "get_domain_pricing",
                                         !.arg = domain, !.cache0 = cache],
                       TldOf(domain))
    /\ UNCHANGED <<config, cache, fetched, tasks, pair>>

CallBatchPricing(domains) ==
    /\ frame.pc = "idle"
    /\ frame' = [IdleFrame EXCEPT !.op = "batch_pricing", !.pc = "loop",
                                  !.domains = domains, !.avail = domains,
                                  !.tlds = UniqueTlds(domains),
                                  !.cache0 = cache]
    /\ UNCHANGED <<config, cache, fetched, tasks, pair>>

\* check_single_domain on the cache c, run to its first await or to its return
BeginCheckSingleDomain(c, domain, include_pricing, outcome) ==
    LET result == check_domain(domain, outcome)
        f == [IdleFrame EXCEPT !.op = "check_single_domain", !.arg = domain,
                               !.include_pricing = include_pricing,
                               !.results = <<result>>,
                               !.outcomes = <<outcome>>,
                               !.log = <<Lookup(domain)>>,
                               !.cache0 = c]
    IN  IF SinglePricingDue(include_pricing, result)
        THEN Enter(c, f, TldOf(domain))
        ELSE Done(f)

\* check_multiple_domains on the cache c, run up to the loop of batch_pricing or
\* to its return
BeginCheckMultipleDomains(c, domains, include_pricing, outcomes) ==
    LET results == check_domains(domains, outcomes)
        available_domains == AvailableDomains(results)
        f == [IdleFrame EXCEPT !.op = "check_multiple_domains",
                               !.domains = domains,
                               !.include_pricing = include_pricing,
                               !.results = results,
                               !.outcomes = outcomes,
                               !.log = [i \in 1..Len(domains) |-> Lookup(domains[i])],
                               !.cache0 = c]
    IN  IF BatchPricingDue(include_pricing, available_domains)
        THEN [f EXCEPT !.pc = "loop", !.avail = available_domains,
                       !.tlds = UniqueTlds(available_domains)]
        ELSE Done(f)

\* One iteration of for tld in tlds, up to the await or the end of the iteration
NextTld(c, f, tld) == Enter(c, [f EXCEPT !.tlds = @ \ {tld}], tld)

\* The suspended get_tld_pricing of frame f gets resp: the cache and the frame
\* once the caller has run on to its next await or its return.
Respond(c, f, resp) ==
    LET r == AfterFetch(c, f.tld, resp) IN
    [cache |-> r.cache,
     frame |-> Resume([f EXCEPT
                         !.outcome = Put(@, f.tld, OutcomeOf(r)),
                         !.resp = IF f.op = "get_tld_pricing"
                                  THEN Some(resp) ELSE @],
                      r)]

\* After the first loop: map back to the domains, attach (check_multiple_domains)
\* and return.
Finish(f) ==
    LET domain_pricing == MapBack(f.avail, f.pricing_results) IN
    Done([f EXCEPT !.domain_pricing = domain_pricing,
                   !.results = IF f.op = "check_multiple_domains"
                               THEN Attach(@, domain_pricing) ELSE @])

CallCheckSingleDomain(domain, include_pricing, outcome) ==
    /\ frame.pc = "idle"
    /\ frame' = BeginCheckSingleDomain(cache, domain, include_pricing, outcome)
    /\ UNCHANGED <<config, cache, fetched, tasks, pair>>

CallCheckMultipleDomains(domains, include_pricing, outcomes) ==
    /\ frame.pc = "idle"
    /\ frame' = BeginCheckMultipleDomains(cache, domains, include_pricing, outcomes)
    /\ UNCHANGED <<config, cache, fetched, tasks, pair>>

\* for tld in tlds: the next iteration, in the set's (arbitrary) order
BatchNextTld ==
    /\ frame.pc = "loop"
    /\ \E tld \in frame.tlds : frame' = NextTld(cache, frame, tld)
    /\ UNCHANGED <<config, cache, fetched, tasks, pair>>

\* The GET of the suspended get_tld_pricing comes back.
FetchResponse(resp) ==
    /\ frame.pc = "fetch"
    /\ LET s == Respond(cache, frame, resp) IN
       /\ cache' = s.cache
       /\ frame' = s.frame
    /\ UNCHANGED <<config, fetched, tasks, pair>>

\* The first loop is over: batch_pricing maps back and returns.
BatchFinish ==
    /\ frame.pc = "loop"
    /\ frame.tlds = {}
    /\ frame' = Finish(frame)
    /\ UNCHANGED <<config, cache, fetched, tasks, pair>>

FetchedIn(log) == {log[i].what : i \in {j \in 1..Len(log) : log[j].call = "fetch"}}

\* The caller takes the result; the next call may begin.
Return ==
    /\ frame.pc = "done"
    /\ frame' = IdleFrame
    /\ UNCHANGED <<config, cache, fetched, tasks, pair>>

\* Return, with the history of the TLDs fetched so far kept.
ReturnNoted ==
    /\ frame.pc = "done"
    /\ frame' = IdleFrame
    /\ fetched' = fetched \cup {t \in FetchedIn(frame.log) : frame.outcome[t] # "error"}
    /\ UNCHANGED <<config, cache, tasks, pair>>

IdleTask == [pc |-> "idle", tld |-> <<>>, value |-> None, raised |-> None]

Init ==
    /\ config = DefaultConfig
    /\ cache = <<>>
    /\ frame = IdleFrame
    /\ fetched = {}
    /\ tasks = [t \in 1..NTasks |-> IdleTask]
    /\ pair = None

DomainLists == SeqsUpTo(DomainPool, MaxDomains)

Next ==
    \/ \E tld \in TldPool : CallGetTldPricing(tld)
    \/ \E d \in DomainPool : CallGetDomainPricing(d)
    \/ \E ds \in DomainLists : CallBatchPricing(ds)
    \/ \E d \in DomainPool, ip \in BOOLEAN, o \in Statuses :
          CallCheckSingleDomain(d, ip, o)
    \/ /\ frame.pc = "idle"
       /\ \E ds \in DomainLists, ip \in BOOLEAN :
             \E os \in [1..Len(ds) -> Statuses] :
                CallCheckMultipleDomains(ds, ip, os)
    \/ BatchNextTld
    \/ /\ frame.pc = "fetch"
       /\ \E resp \in Responses : FetchResponse(resp)
    \/ BatchFinish
    \/ Return

\* One caller, one call at a time, on the singleton pricing_client.
Spec == Init /\ [][Next]_vars

\* ------------------------------------- sequential calls, with their history

NextHistory ==
    \/ \E tld \in TldPool : CallGetTldPricing(tld)
    \/ \E ds \in DomainLists : CallBatchPricing(ds)
    \/ BatchNextTld
    \/ /\ frame.pc = "fetch"
       /\ \E resp \in Responses : FetchResponse(resp)
    \/ BatchFinish
    \/ ReturnNoted

SpecHistory == Init /\ [][NextHistory]_vars

\* --------------------------- concurrent get_tld_pricing on the same client

\* get_tld_pricing(tld) begins in task t and runs to its first await.
TaskCall(t, tld) ==
    /\ tasks[t].pc = "idle"
    /\ tasks' = [tasks EXCEPT ![t] =
                    IF CacheHit(cache, tld)
                    THEN [pc |-> "done", tld |-> tld, value |-> Some(cache[tld]),
                          raised |-> None]
                    ELSE [pc |-> "fetch", tld |-> tld, value |-> None,
                          raised |-> None]]
    /\ UNCHANGED <<config, cache, frame, fetched, pair>>

\* The GET of task t comes back and the task runs to its end.
TaskResponse(t, resp) ==
    /\ tasks[t].pc = "fetch"
    /\ LET r == AfterFetch(cache, tasks[t].tld, resp) IN
       /\ cache' = r.cache
       /\ tasks' = [tasks EXCEPT ![t] = [pc |-> "done", tld |-> @.tld,
                                         value |-> r.value, raised |-> r.raised]]
    /\ UNCHANGED <<config, frame, fetched, pair>>

TaskReturn(t) ==
    /\ tasks[t].pc = "done"
    /\ tasks' = [tasks EXCEPT ![t] = IdleTask]
    /\ UNCHANGED <<config, cache, frame, fetched, pair>>

NextConc ==
    \/ \E t \in 1..NTasks, tld \in TldPool : TaskCall(t, tld)
    \/ \E t \in 1..NTasks :
          /\ tasks[t].pc = "fetch"
          /\ \E resp \in Responses : TaskResponse(t, resp)
    \/ \E t \in 1..NTasks : TaskReturn(t)

SpecConc == Init /\ [][NextConc]_vars

\* ------------------ one domain through both branches of run_checks

\* asyncio.run on the coroutine of frame f, over the cache c, every GET it issues
\* answered with resp: the cache and the frame at its return.
RECURSIVE RunToReturn(_, _, _)
RunToReturn(c, f, resp) ==
    IF f.pc = "fetch"
    THEN LET s == Respond(c, f, resp) IN RunToReturn(s.cache, s.frame, resp)
    ELSE IF f.pc = "loop"
    THEN IF f.tlds = {} THEN [cache |-> c, frame |-> Finish(f)]
         ELSE RunToReturn(c, NextTld(c, f, CHOOSE tld \in f.tlds : TRUE), resp)
    ELSE [cache |-> c, frame |-> f]

\* run_checks for the one domain, once through each of its branches, both from
\* the present cache, with the same lookup outcome and the same response.
RunChecksBothWays(domain, include_pricing, outcome, resp) ==
    /\ frame.pc = "idle"
    /\ pair = None
    /\ pair' = Some(
          [domain |-> domain, include_pricing |-> include_pricing,
           outcome |-> outcome, resp |-> resp, cache0 |-> cache,
           single |-> RunToReturn(cache,
                                  BeginCheckSingleDomain(cache, domain,
                                                         include_pricing, outcome),
                                  resp),
           batch |-> RunToReturn(cache,
                                 BeginCheckMultipleDomains(cache, <<domain>>,
                                                           include_pricing,
                                                           <<outcome>>),
                                 resp)])
    /\ UNCHANGED <<config, cache, frame, fetched, tasks>>

\* The two reports have been compared; the next call may begin.
PairReturn ==
    /\ pair # None
    /\ pair' = None
    /\ UNCHANGED <<config, cache, frame, fetched, tasks>>

NextPair ==
    \/ /\ pair = None
       /\ \E tld \in TldPool : CallGetTldPricing(tld)
    \/ /\ frame.pc = "fetch"
       /\ \E resp \in Responses : FetchResponse(resp)
    \/ Return
    \/ /\ frame.pc = "idle" /\ pair = None
       /\ \E d \in DomainPool, ip \in BOOLEAN, o \in Statuses, resp \in Responses :
             RunChecksBothWays(d, ip, o, resp)
    \/ PairReturn

SpecPair == Init /\ [][NextPair]_vars

\* ------------------------------------------------------- categorization

ThresholdPool == {0, 500, 1500, 3000}

PricePool == {0, 400, 500, 501, 1000, 1500, 1501, 2000, 2999, 3000, 3001, 3500}

TierPrices == {400, 1000, 2000, 3500}

ConfigPool ==
    [bundled_max_cents : ThresholdPool,
     recommended_max_cents : ThresholdPool,
     premium_flag_above_cents : ThresholdPool]

Injective(s) == \A i, j \in 1..Len(s) : s[i] = s[j] => i = j

\* The dict categorize_domains_by_pricing is given, in iteration order: the
\* distinct domains ds, each with a DomainPrice of the price ps[i].
DomainPriceDict(ds, ps) ==
    [i \in 1..Len(ds) |->
        [domain |-> ds[i],
         price_info |-> DomainPrice(ds[i], TldOf(ds[i]), ps[i], "USD", None)]]

\* DomainPrice(...) constructed for a price
Construct(domain, price_cents) ==
    /\ frame.pc = "idle"
    /\ frame' = Done([IdleFrame EXCEPT
                        !.op = "DomainPrice", !.arg = domain,
                        !.value = Some(DomainPrice(domain, TldOf(domain),
                                                   price_cents, "USD", None))])
    /\ UNCHANGED <<config, cache, fetched, tasks, pair>>

CallCategorize(ds, ps) ==
    /\ frame.pc = "idle"
    /\ Injective(ds)
    /\ LET domain_prices == DomainPriceDict(ds, ps) IN
       frame' = Done([IdleFrame EXCEPT
                        !.op = "categorize_domains_by_pricing",
                        !.domain_prices = domain_prices,
                        !.categories = categorize_domains_by_pricing(domain_prices)])
    /\ UNCHANGED <<config, cache, fetched, tasks, pair>>

InitCat ==
    /\ config \in ConfigPool
    /\ cache = <<>>
    /\ frame = IdleFrame
    /\ fetched = {}
    /\ tasks = [t \in 1..NTasks |-> IdleTask]
    /\ pair = None

NextCat ==
    \/ \E d \in DomainPool, p \in PricePool : Construct(d, p)
    \/ /\ frame.pc = "idle"
       /\ \E k \in 0..MaxDomains :
             \E ds \in [1..k -> DomainPool], ps \in [1..k -> TierPrices] :
                CallCategorize(ds, ps)
    \/ Return

SpecCat == InitCat /\ [][NextCat]_vars

\* ============================================================ properties

BatchDone == frame.op = "check_multiple_domains" /\ frame.pc = "done"

NFetches(log) == Cardinality({j \in 1..Len(log) : log[j].call = "fetch"})

\* The TLD as the specification words it: the last label of the name, lower-cased.
ClaimTld(d) == Lower(LastLabel(d))

\* C1: check_multiple_domains returns exactly one result per input domain, in
\* input order, each with the status its lookup gave, whatever the pricing
\* fetches return or raise.
C1_OneResultPerDomainInOrder ==
    BatchDone =>
        /\ frame.raised = None
        /\ Len(frame.results) = Len(frame.domains)
        /\ \A i \in 1..Len(frame.domains) :
              /\ frame.results[i].domain = frame.domains[i]
              /\ frame.results[i].status = frame.outcomes[i]

C1_Witness ==
    /\ BatchDone
    /\ frame.include_pricing
    /\ Len(frame.domains) = 2
    /\ \E t \in DOMAIN frame.outcome : frame.outcome[t] = "error"
    /\ frame.results[1].pricing = None
    /\ frame.results[2].pricing # None

\* C2: over sequential get_tld_pricing and batch_pricing calls on one cache, at
\* most one external fetch is ever issued for a TLD, whatever the catalog
\* response: no call fetches a TLD for which an earlier call already obtained a
\* catalog, and no call fetches a TLD twice.
C2_AtMostOneFetchPerTld ==
    /\ FetchedIn(frame.log) \cap fetched = {}
    /\ NFetches(frame.log) = Cardinality(FetchedIn(frame.log))

\* C3: with get_tld_pricing requests interleaved at their awaits, at most one
\* external fetch per TLD is in flight.
C3_OneFetchInFlightPerTld ==
    \A tld \in TldPool :
        Cardinality({t \in 1..NTasks :
                        tasks[t].pc = "fetch" /\ tasks[t].tld = tld}) <= 1

\* C4: from an empty cache, a batch_pricing call over domains whose lower-cased
\* last labels form k distinct TLDs issues exactly k fetches, one per TLD.
C4_ColdBatchFetchesOncePerTld ==
    (frame.op = "batch_pricing" /\ frame.pc = "done" /\ frame.cache0 = <<>>) =>
        /\ frame.raised = None
        /\ NFetches(frame.log) =
              Cardinality({ClaimTld(d) : d \in Range(frame.domains)})
        /\ FetchedIn(frame.log) = {ClaimTld(d) : d \in Range(frame.domains)}

C4_Witness ==
    /\ frame.op = "batch_pricing" /\ frame.pc = "done" /\ frame.cache0 = <<>>
    /\ Len(frame.domains) = 2
    /\ frame.domains[1] # frame.domains[2]
    /\ Lower(frame.domains[1]) # Lower(frame.domains[2])
    /\ ClaimTld(frame.domains[1]) = ClaimTld(frame.domains[2])
    /\ frame.domains[1] # Lower(frame.domains[1])
    /\ NFetches(frame.log) = 1

\* C5: in a batch with pricing enabled where some TLD's fetch fails, the call
\* returns every domain's availability result; every TLD of an available domain
\* is still looked up; the available domains whose TLD resolved carry that
\* price and the domains whose TLD's fetch failed carry none.
C5_PartialFailureTolerated ==
    (BatchDone /\ frame.include_pricing) =>
        /\ frame.raised = None
        /\ Len(frame.results) = Len(frame.domains)
        /\ DOMAIN frame.outcome =
              {ClaimTld(frame.domains[i]) :
                 i \in {j \in 1..Len(frame.domains) : frame.outcomes[j] = "AVAILABLE"}}
        /\ \A i \in 1..Len(frame.domains) :
              LET r == frame.results[i]
                  tld == ClaimTld(frame.domains[i])
              IN  /\ r.domain = frame.domains[i]
                  /\ r.status = frame.outcomes[i]
                  /\ (r.status = "AVAILABLE" /\ frame.outcome[tld] \in {"hit", "found"})
                        => /\ r.pricing # None
                           /\ r.pricing[1].domain = r.domain
                           /\ r.pricing[1].price_cents = cache[tld].price_cents
                  /\ (tld \in DOMAIN frame.outcome /\ frame.outcome[tld] = "error")
                        => r.pricing = None

C5_Witness ==
    /\ BatchDone
    /\ frame.include_pricing
    /\ \E t \in DOMAIN frame.outcome : frame.outcome[t] = "error"
    /\ \E t \in DOMAIN frame.outcome : frame.outcome[t] = "found"
    /\ \E i \in 1..Len(frame.results) : frame.results[i].pricing # None
    /\ \E i \in 1..Len(frame.results) :
          /\ frame.results[i].status = "AVAILABLE"
          /\ frame.results[i].pricing = None

CatDone(op) == frame.op = op /\ frame.pc = "done"

\* The tier as the specification words it, straight from the price and the
\* thresholds.
ClaimTier(cfg, price_cents) ==
    IF price_cents <= cfg.bundled_max_cents THEN "bundled"
    ELSE IF price_cents <= cfg.recommended_max_cents THEN "recommended"
    ELSE IF price_cents >= cfg.premium_flag_above_cents THEN "premium"
    ELSE "standard"

\* C6: for every price and threshold triple, DomainPrice.category is the first
\* match of bundled (price <= bundled_max), recommended (price <=
\* recommended_max), premium (price >= premium_flag_above), standard; with
\* 500/1500/3000 the prices 400, 1000, 3500, 2000 give bundled, recommended,
\* premium, standard.
C6_CategoryIsFirstMatch ==
    CatDone("DomainPrice") =>
        LET p == frame.value[1] IN
        /\ category(p) \in {"bundled", "recommended", "premium", "standard"}
        /\ category(p) = ClaimTier(config, p.price_cents)
        /\ config = DefaultConfig =>
              /\ p.price_cents = 400 => category(p) = "bundled"
              /\ p.price_cents = 1000 => category(p) = "recommended"
              /\ p.price_cents = 3500 => category(p) = "premium"
              /\ p.price_cents = 2000 => category(p) = "standard"

C6_Witness ==
    /\ CatDone("DomainPrice")
    /\ config = DefaultConfig
    /\ frame.value[1].price_cents = 2000
    /\ category(frame.value[1]) = "standard"

PositionIn(domain_prices, d) ==
    CHOOSE i \in 1..Len(domain_prices) : domain_prices[i].domain = d

\* C7: categorize_domains_by_pricing returns exactly the keys bundled,
\* recommended, standard, premium; every input domain is in the list of its
\* price's tier exactly once and in no other list; no other domain appears; each
\* list is in the input's iteration order.
C7_CategorizePartitions ==
    CatDone("categorize_domains_by_pricing") =>
        LET in == frame.domain_prices
            out == frame.categories
            keys == {"bundled", "recommended", "standard", "premium"}
        IN  /\ DOMAIN out = keys
            /\ \A i \in 1..Len(in) :
                  \A k \in keys :
                     Cardinality({j \in 1..Len(out[k]) : out[k][j] = in[i].domain})
                        = IF k = ClaimTier(config, in[i].price_info.price_cents)
                          THEN 1 ELSE 0
            /\ \A k \in keys :
                  /\ Range(out[k]) \subseteq {in[i].domain : i \in 1..Len(in)}
                  /\ \A a, b \in 1..Len(out[k]) :
                        a < b => PositionIn(in, out[k][a]) < PositionIn(in, out[k][b])

C7_Witness ==
    /\ CatDone("categorize_domains_by_pricing")
    /\ Len(frame.domain_prices) = 2
    /\ \E k \in DOMAIN frame.categories : Len(frame.categories[k]) = 2

\* C8: in the report of check_multiple_domains a result carries pricing only if
\* its own status is AVAILABLE, also when a domain name occurs more than once.
C8_PricingOnlyOnAvailable ==
    BatchDone =>
        \A i \in 1..Len(frame.results) :
            frame.results[i].pricing # None => frame.results[i].status = "AVAILABLE"

TldDone == frame.op = "get_tld_pricing" /\ frame.pc = "done"

ValidMatch(e, tld) ==
    e.shape = "object" /\ e.tld = tld /\ e.price.t # "null" /\ e.renewal.t # "null"

MalformedFor(e, tld) ==
    \/ e.shape # "object"
    \/ e.tld = tld /\ (e.price.t = "null" \/ e.renewal.t = "null")

\* The fetch fails: an HTTP error, a body that is no JSON, success false, or a
\* malformed entry met before any entry of the TLD that can be read.
FetchFails(resp, tld) ==
    \/ resp.kind \in {"http_error", "bad_json"}
    \/ ~resp.success
    \/ \E i \in 1..Len(resp.result) :
          /\ MalformedFor(resp.result[i], tld)
          /\ \A j \in 1..(i - 1) : ~ValidMatch(resp.result[j], tld)

\* C9: every failure of the fetch inside get_tld_pricing reaches the caller as a
\* PricingError, no other error kind leaves the call, and the cache after a
\* failed call is the cache before it.
C9_FetchFailureIsPricingError ==
    (TldDone /\ frame.resp # None) =>
        /\ FetchFails(frame.resp[1], frame.arg) =>
              /\ frame.raised = Some("PricingError")
              /\ frame.value = None
              /\ cache = frame.cache0
        /\ frame.raised # None =>
              /\ frame.raised = Some("PricingError")
              /\ FetchFails(frame.resp[1], frame.arg)

C9_Witness ==
    /\ TldDone
    /\ frame.resp # None
    /\ frame.resp[1].kind = "json" /\ frame.resp[1].success
    /\ Len(frame.resp[1].result) = 2
    /\ ~MalformedFor(frame.resp[1].result[1], frame.arg)
    /\ frame.resp[1].result[2].shape = "object"
    /\ MalformedFor(frame.resp[1].result[2], frame.arg)
    /\ frame.raised = Some("PricingError")
    /\ frame.cache0 # <<>>
    /\ cache = frame.cache0

\* C10: when the requested TLD has an entry in the cache, get_tld_pricing
\* returns that entry without suspending, issues no fetch, does not raise and
\* leaves the cache as it was.
C10_CacheHitReturnsEntry ==
    (frame.op = "get_tld_pricing" /\ frame.arg \in DOMAIN frame.cache0) =>
        /\ frame.pc = "done"
        /\ frame.value = Some(frame.cache0[frame.arg])
        /\ frame.raised = None
        /\ frame.log = <<>>
        /\ cache = frame.cache0

C10_Witness ==
    /\ TldDone
    /\ frame.arg \in DOMAIN frame.cache0
    /\ Cardinality(DOMAIN frame.cache0) = 2
    /\ frame.value = Some(cache[frame.arg])

\* The positions of the catalog's entries for the TLD.
EntriesFor(result, tld) ==
    {i \in 1..Len(result) : result[i].shape = "object" /\ result[i].tld = tld}

SetMin(S) == CHOOSE m \in S : \A x \in S : m <= x

\* C11: a get_tld_pricing call that misses the cache and whose fetch succeeds
\* returns the price of the catalog's (first) entry for the TLD, in cents, and
\* stores it under that TLD; when the catalog has no entry for the TLD it
\* returns None without raising and stores nothing.  Either way every other
\* TLD's cache entry is as it was, and none is created.
C11_MissReturnsCatalogPrice ==
    (TldDone /\ frame.resp # None /\ ~FetchFails(frame.resp[1], frame.arg)) =>
        LET result == frame.resp[1].result
            hits == EntriesFor(result, frame.arg)
        IN  /\ frame.raised = None
            /\ frame.arg \notin DOMAIN frame.cache0
            /\ \A k \in DOMAIN frame.cache0 :
                  k \in DOMAIN cache /\ cache[k] = frame.cache0[k]
            /\ DOMAIN cache \subseteq DOMAIN frame.cache0 \cup {frame.arg}
            /\ IF hits = {}
               THEN /\ frame.value = None
                    /\ cache = frame.cache0
               ELSE LET e == result[SetMin(hits)] IN
                    /\ frame.value # None
                    /\ frame.value[1].tld = frame.arg
                    /\ frame.value[1].price_cents =
                          100 * (IF e.price.t = "num" THEN e.price.v ELSE 0)
                    /\ e.renewal.t = "num" =>
                          frame.value[1].annual_renewal_cents =
                             Some(100 * e.renewal.v)
                    /\ frame.arg \in DOMAIN cache
                    /\ cache[frame.arg] = frame.value[1]

C11_Witness ==
    /\ TldDone
    /\ frame.resp # None
    /\ ~FetchFails(frame.resp[1], frame.arg)
    /\ Len(frame.resp[1].result) = 2
    /\ frame.resp[1].result[1].tld # frame.arg
    /\ frame.resp[1].result[2].tld = frame.arg
    /\ frame.cache0 # <<>>
    /\ frame.value # None
    /\ frame.value[1].price_cents = 3500
    /\ cache[frame.arg] = frame.value[1]

CheckOp == frame.op \in {"check_single_domain", "check_multiple_domains"}

\* C12: with include_pricing false, check_single_domain and
\* check_multiple_domains return the availability results as the lookups gave
\* them, with no pricing on any result, issue no pricing fetch and leave the
\* price cache as it was, whatever the statuses.
C12_NoPricingWhenNotIncluded ==
    (CheckOp /\ ~frame.include_pricing) =>
        /\ frame.pc = "done"
        /\ frame.raised = None
        /\ NFetches(frame.log) = 0
        /\ cache = frame.cache0
        /\ Len(frame.results) = Len(frame.outcomes)
        /\ \A i \in 1..Len(frame.results) :
              /\ frame.results[i].status = frame.outcomes[i]
              /\ frame.results[i].pricing = None

C12_Witness ==
    /\ frame.op = "check_multiple_domains"
    /\ ~frame.include_pricing
    /\ frame.pc = "done"
    /\ Len(frame.results) = 2
    /\ frame.results[1].status = "AVAILABLE"
    /\ frame.results[2].status = "UNKNOWN"
    /\ frame.results[1].pricing = None
    /\ frame.cache0 # <<>>

\* C13: check_multiple_domains on an empty list returns an empty report and
\* issues no external call, neither a lookup nor a pricing fetch; batch_pricing
\* on an empty list returns an empty mapping and issues no fetch; and a batch
\* in which no domain is AVAILABLE issues no pricing fetch.
C13_NothingToPriceNoFetch ==
    /\ (frame.op = "check_multiple_domains" /\ frame.domains = <<>>) =>
          /\ frame.pc = "done"
          /\ frame.results = <<>>
          /\ frame.raised = None
          /\ frame.log = <<>>
    /\ (frame.op = "batch_pricing" /\ frame.domains = <<>>) =>
          /\ frame.pc \in {"loop", "done"}
          /\ frame.log = <<>>
          /\ frame.raised = None
          /\ frame.pc = "done" => frame.domain_pricing = <<>>
    /\ (frame.op = "check_multiple_domains"
           /\ \A i \in 1..Len(frame.outcomes) : frame.outcomes[i] # "AVAILABLE") =>
          /\ frame.pc = "done"
          /\ NFetches(frame.log) = 0
          /\ cache = frame.cache0

C13_Witness ==
    /\ BatchDone
    /\ frame.include_pricing
    /\ Len(frame.domains) = 2
    /\ frame.outcomes[1] = "REGISTERED"
    /\ frame.outcomes[2] = "UNKNOWN"
    /\ NFetches(frame.log) = 0
    /\ Len(frame.log) = 2

C13_WitnessEmpty ==
    /\ frame.op = "batch_pricing"
    /\ frame.pc = "done"
    /\ frame.domains = <<>>
    /\ frame.domain_pricing = <<>>
    /\ frame.log = <<>>

\* The positions of log at which a call of the given kind was issued.
CallsAt(log, kind) == {j \in 1..Len(log) : log[j].call = kind}

\* C15: in a check_multiple_domains run with pricing enabled, every domain's
\* availability lookup has been made before the first pricing fetch is issued,
\* and every TLD fetched is the lower-cased last label of a domain whose status
\* in this batch is AVAILABLE; a TLD found only on REGISTERED or UNKNOWN
\* domains is never fetched.
C15_LookupsBeforeFetchesOfAvailableTlds ==
    (frame.op = "check_multiple_domains" /\ frame.include_pricing) =>
        LET lookups == CallsAt(frame.log, "lookup")
            fetches == CallsAt(frame.log, "fetch")
            availableTlds ==
                {ClaimTld(frame.domains[i]) :
                   i \in {j \in 1..Len(frame.domains) : frame.outcomes[j] = "AVAILABLE"}}
        IN  /\ \A l \in lookups, f \in fetches : l < f
            /\ fetches # {} =>
                  /\ Cardinality(lookups) = Len(frame.domains)
                  /\ \A i \in 1..Len(frame.domains) :
                        frame.log[i] = Lookup(frame.domains[i])
            /\ FetchedIn(frame.log) \subseteq availableTlds

C15_Witness ==
    /\ BatchDone
    /\ frame.include_pricing
    /\ Len(frame.domains) = 2
    /\ frame.outcomes[1] = "REGISTERED"
    /\ frame.outcomes[2] = "AVAILABLE"
    /\ ClaimTld(frame.domains[1]) # ClaimTld(frame.domains[2])
    /\ frame.domains[2] # Lower(frame.domains[2])
    /\ FetchedIn(frame.log) = {ClaimTld(frame.domains[2])}
    /\ Len(frame.log) = 3

\* Every entry of the cache c is in d, with the same price.
Keeps(c, d) == \A k \in DOMAIN c : k \in DOMAIN d /\ d[k] = c[k]

\* C14: the price cache starts empty and only grows: over any sequence of
\* get_tld_pricing, get_domain_pricing and batch_pricing calls (and the checks
\* built on them), whether they return a price, return None or raise, no step
\* removes a cache entry or changes its price.
C14_CacheOnlyGrows == (cache = <<>>) /\ [][Keeps(cache, cache')]_vars

C14_Witness ==
    /\ frame.op \in {"get_tld_pricing", "get_domain_pricing", "batch_pricing"}
    /\ frame.pc = "done"
    /\ frame.cache0 # <<>>
    /\ Keeps(frame.cache0, cache)
    /\ Cardinality(DOMAIN cache) > Cardinality(DOMAIN frame.cache0)
    /\ \E t \in DOMAIN frame.outcome : frame.outcome[t] = "hit"

\* C16: batch_pricing returns a mapping whose keys are exactly the input
\* domains whose TLD (the lower-cased text after the last dot, the whole
\* lower-cased name when there is no dot) resolved to a price in this call;
\* each value has the key, as given, as its domain, and the tld, price_cents,
\* currency and annual_renewal_cents of the TLD's price; a domain whose TLD has
\* no price is absent and nothing is raised.
C16_BatchMapsPricedDomains ==
    (frame.op = "batch_pricing" /\ frame.pc = "done") =>
        LET out == frame.domain_pricing
            priced == {d \in Range(frame.domains) :
                          frame.outcome[ClaimTld(d)] \in {"hit", "found"}}
        IN  /\ frame.raised = None
            /\ DOMAIN frame.outcome = {ClaimTld(d) : d \in Range(frame.domains)}
            /\ DOMAIN out = priced
            /\ \A d \in priced :
                  LET price == cache[ClaimTld(d)] IN
                  /\ out[d].domain = d
                  /\ out[d].tld = ClaimTld(d)
                  /\ out[d].tld = price.tld
                  /\ out[d].price_cents = price.price_cents
                  /\ out[d].currency = price.currency
                  /\ out[d].annual_renewal_cents = price.annual_renewal_cents

C16_Witness ==
    /\ frame.op = "batch_pricing" /\ frame.pc = "done"
    /\ Len(frame.domains) = 2
    /\ frame.domains[1] # Lower(frame.domains[1])
    /\ frame.domains[1] \in DOMAIN frame.domain_pricing
    /\ frame.domains[2] \notin DOMAIN frame.domain_pricing
    /\ frame.outcome[ClaimTld(frame.domains[2])] = "absent"
    /\ frame.domain_pricing[frame.domains[1]].price_cents = 3500

\* A DomainPrice has been constructed under thresholds with bundled_max <=
\* recommended_max, for a price above bundled_max that exceeds
\* premium_flag_above_cents.
AbovePremiumFlag ==
    /\ CatDone("DomainPrice")
    /\ config.bundled_max_cents <= config.recommended_max_cents
    /\ frame.value[1].price_cents > config.bundled_max_cents
    /\ frame.value[1].price_cents > config.premium_flag_above_cents

\* C17 as stated: with bundled_max <= recommended_max, a price above bundled_max
\* that exceeds premium_flag_above_cents has category premium, whether or not
\* the price is also <= recommended_max.
C17_PremiumRegardlessOfRecommended ==
    AbovePremiumFlag => category(frame.value[1]) = "premium"

\* C17, amended: with bundled_max <= recommended_max, a price above bundled_max
\* that exceeds premium_flag_above_cents has category premium only when it also
\* exceeds recommended_max; when it is <= recommended_max its category is
\* recommended, although its is_premium flag is set.
C17_PremiumOnlyAboveRecommended ==
    AbovePremiumFlag =>
        LET p == frame.value[1] IN
        /\ p.is_premium
        /\ p.price_cents > config.recommended_max_cents => category(p) = "premium"
        /\ p.price_cents <= config.recommended_max_cents =>
              category(p) = "recommended"

C17_Witness ==
    /\ AbovePremiumFlag
    /\ frame.value[1].price_cents <= config.recommended_max_cents
    /\ frame.value[1].is_premium
    /\ category(frame.value[1]) = "recommended"

C17_WitnessPremium ==
    /\ AbovePremiumFlag
    /\ frame.value[1].price_cents > config.recommended_max_cents
    /\ category(frame.value[1]) = "premium"

\* C18: check_single_domain(d) and check_multiple_domains([d]), started from the
\* same cache with the same lookup outcome, the same response to the pricing
\* fetch (a price, a catalog without the TLD, a failure) and the same
\* include_pricing, both return without raising, with the same status, pricing
\* present in both or in neither, the same price fields, and the same cache
\* left behind.
C18_SingleAndBatchAgree ==
    pair # None =>
        LET s == pair[1].single
            b == pair[1].batch
            sr == s.frame.results
            br == b.frame.results
        IN  /\ s.frame.op = "check_single_domain" /\ s.frame.pc = "done"
            /\ b.frame.op = "check_multiple_domains" /\ b.frame.pc = "done"
            /\ s.frame.raised = None
            /\ b.frame.raised = None
            /\ Len(sr) = 1
            /\ Len(br) = 1
            /\ sr[1].domain = pair[1].domain
            /\ br[1].domain = pair[1].domain
            /\ sr[1].status = pair[1].outcome
            /\ br[1].status = sr[1].status
            /\ (sr[1].pricing = None) <=> (br[1].pricing = None)
            /\ sr[1].pricing = br[1].pricing
            /\ s.cache = b.cache
            /\ NFetches(s.frame.log) = NFetches(b.frame.log)
            /\ s.frame.outcome = b.frame.outcome

C18_Witness ==
    /\ pair # None
    /\ pair[1].include_pricing
    /\ pair[1].domain # Lower(pair[1].domain)
    /\ pair[1].cache0 # <<>>
    /\ pair[1].single.cache # pair[1].cache0
    /\ pair[1].single.frame.results[1].pricing # None
    /\ pair[1].batch.frame.results[1].pricing # None
    /\ pair[1].batch.frame.results[1].pricing[1].domain = pair[1].domain

C18_WitnessFailure ==
    /\ pair # None
    /\ pair[1].include_pricing
    /\ pair[1].outcome = "AVAILABLE"
    /\ pair[1].single.frame.outcome[ClaimTld(pair[1].domain)] = "error"
    /\ pair[1].batch.frame.results[1].pricing = None

C18_WitnessAbsent ==
    /\ pair # None
    /\ pair[1].include_pricing
    /\ pair[1].outcome = "AVAILABLE"
    /\ pair[1].batch.frame.outcome[ClaimTld(pair[1].domain)] = "absent"
    /\ pair[1].single.frame.results[1].pricing = None

====
